---- MODULE Spec2Model ----
(***************************************************************************)
(* iCAM06 tone-mapping operator (package tmo): the ICam06 object, its      *)
(* constructor, and Perform() with its five tile-parallel stages           *)
(* (luminance scan, tone compression, final peak reduction, sample         *)
(* collection, final clipping/encoding).                                   *)
(*                                                                         *)
(* Numbers.  The program computes in float64.  Here every quantity is an   *)
(* integer: luminances are whole cd/m2, the three tunables are hundredths  *)
(* (0.6 is 60, 1.0 is 100), linear RGB samples are thousandths (1.0 is     *)
(* RgbOne).  Divisions are floor divisions.  The float formulas of the     *)
(* appearance model are reduced to integer forms of the same shape; the    *)
(* addresses read and written, the tile loops, the channels and the        *)
(* barriers are those of the code.                                         *)
(***************************************************************************)
EXTENDS Integers, Sequences, FiniteSets, TLC

(* ------------------------------ bounds --------------------------------- *)
W == 2
H == 2
MaxTiles == 2

(* ------------------------- program constants --------------------------- *)
maxLum == 20000
ContrastMin == 60
ContrastMax == 85
ClipMax == 100
NegInf == -1
RgbOne == 1000
RangeMax == 65535
NaN == -2
ImplDep == -3

VARIABLES
  args,         \* <<contrast, minClipping, maxClipping>> handed to NewICam06
  pc,           \* position of the goroutine that calls NewICam06 / Perform
  fresh,        \* no Perform() call was made before the current one
  img,          \* t.HDRImage: Y channel of every pixel
  tiles,        \* the rectangles ParallelR splits the bounds into
  Contrast, MinClipping, MaxClipping,   \* fields of ICam06
  t_maxLum,     \* field t.maxLum
  normalized,   \* field t.normalized: Y of every pixel
  baseLayer,    \* field t.baseLayer: Y of every pixel
  maxLumSeen,   \* values t.maxLum has held since the luminance tiles started
  white,        \* raster behind t.white / toneCompressed (one storage)
  whiteLive,    \* t.white # nil
  Sw,           \* local of toneCompression
  norMaxLum,    \* local of normalize
  perc,         \* local of normalize: the sample table
  minRGB, maxRGB,
  m,            \* the *image.RGBA64 Perform returns
  task,         \* task[s][i]: the goroutine of stage s running tile i
  partial,      \* partial[s][i]: the value tile i offered on maxCh (or NegInf)
  received,     \* received[s]: tiles whose value the select loop has folded
  hist,         \* access log: stale/cross reads, write counts, slot writers
  prev          \* the result PerformAgain kept of the call before (or <<>>)

vars == <<args, pc, fresh, img, tiles, Contrast, MinClipping, MaxClipping,
          t_maxLum, normalized, baseLayer, maxLumSeen, white, whiteLive, Sw, norMaxLum, perc,
          minRGB, maxRGB, m, task, partial, received, hist, prev>>

(* ------------------------------ helpers -------------------------------- *)
Max(a, b) == IF a >= b THEN a ELSE b

Min(a, b) == IF a <= b THEN a ELSE b

MaxOfSet(S) == CHOOSE v \in S : \A u \in S : u <= v

RECURSIVE SumOver(_, _)
SumOver(f, S) ==
  IF S = {} THEN 0
  ELSE LET p == CHOOSE q \in S : TRUE IN f[p] + SumOver(f, S \ {p})

\* util.Clamp(min, max, v)
Clamp(lo, hi, v) == IF v < lo THEN lo ELSE IF v > hi THEN hi ELSE v

Pixels == (0 .. W - 1) \X (0 .. H - 1)

NPixels == W * H

Stages == {"lum", "tone", "peak", "collect", "final"}

ReduceStages == {"lum", "peak"}

StageNo(s) ==
  CASE s = "lum" -> 1 [] s = "tone" -> 2 [] s = "peak" -> 3
    [] s = "collect" -> 4 [] s = "final" -> 5

(* ------------------------- images and tilings -------------------------- *)
\* A dim background (Y = 50) with at most one bright pixel above the
\* 20000 cd/m2 cap.
Images ==
  {[p \in Pixels |-> 50]} \cup
  {[p \in Pixels |-> IF p = b THEN 30000 ELSE 50] : b \in Pixels}

\* util.Split: k horizontal or k vertical strips that cover the bounds
RowStrips(k) ==
  [j \in 1 .. k |-> [x1 |-> 0, y1 |-> ((j - 1) * H) \div k,
                     x2 |-> W, y2 |-> (j * H) \div k]]

ColStrips(k) ==
  [j \in 1 .. k |-> [x1 |-> ((j - 1) * W) \div k, y1 |-> 0,
                     x2 |-> (j * W) \div k, y2 |-> H]]

Tilings ==
  {RowStrips(k) : k \in 1 .. Min(MaxTiles, H)} \cup
  {ColStrips(k) : k \in 1 .. Min(MaxTiles, W)}

TileIds == 1 .. Len(tiles)

TilePixels(tl) == (tl.x1 .. tl.x2 - 1) \X (tl.y1 .. tl.y2 - 1)

(* --------------------------- constructor ------------------------------- *)
\* mutant: the third clamp copies the second one's argument
NewICam06_CopiedClamp(contrast, minClipping, maxClipping) ==
  [Contrast    |-> Clamp(ContrastMin, ContrastMax, contrast),
   MinClipping |-> Clamp(0, ClipMax, minClipping),
   MaxClipping |-> Clamp(0, ClipMax, minClipping)]

\* NewICam06(m, contrast, minClipping, maxClipping)
NewICam06(contrast, minClipping, maxClipping) ==
  [Contrast    |-> Clamp(ContrastMin, ContrastMax, contrast),
   MinClipping |-> Clamp(0, ClipMax, minClipping),
   MaxClipping |-> Clamp(0, ClipMax, maxClipping)]

NewArgs ==
  {10, 60, 75, 85, 200} \X {-100, 0, 1, 50, 100, 500} \X {-100, 0, 50, 99, 100, 500}

\* NewDefaultICam06's triple, an out-of-range triple, and a lower clipping of 1.0
PerformArgs == {<<75, 1, 99>>, <<200, -100, 500>>, <<10, 100, 99>>}

(* ------------------------------ tasks ---------------------------------- *)
IdleTask ==
  [pc |-> "idle", x |-> 0, y |-> 0, ph |-> 0, max |-> 0, yw |-> 0, ca |-> 0]

DoneTask == [IdleTask EXCEPT !.pc = "done"]

\* the closure enters its loops: y := y1, x := x1, `var max float64`
StartTask(tl) == [IdleTask EXCEPT !.pc = "loop", !.x = tl.x1, !.y = tl.y1]

\* one iteration of `for y := y1; y < y2; y++ { for x := x1; x < x2; x++ {`
LoopNext(tl, tk, end) ==
  IF tk.x + 1 < tl.x2 THEN [tk EXCEPT !.x = tk.x + 1, !.ph = 0]
  ELSE IF tk.y + 1 < tl.y2 THEN [tk EXCEPT !.x = tl.x1, !.y = tk.y + 1, !.ph = 0]
  ELSE [tk EXCEPT !.pc = end, !.x = 0, !.y = 0, !.ph = 0, !.yw = 0, !.ca = 0]

\* util.ParallelR(bounds, f): one goroutine per tile
Spawn(s) == [task EXCEPT ![s] = [i \in TileIds |-> StartTask(tiles[i])]]

\* mutant: maxCh buffered, so the send returns before the value is taken
TileFinished_Buffered(s, i) == task[s][i].pc \in {"send", "done"}

\* a tile's goroutine has returned from f; in the two reductions f ends with
\* the send on the unbuffered maxCh, which returns when the value is taken
TileFinished(s, i) == task[s][i].pc = "done"

\* the channel ParallelR returns is ready once every tile's f has returned
Completed(s) == \A i \in TileIds : TileFinished(s, i)

\* luminance: `case <-completed: return` of the select loop
LumBarrier == Completed("lum")

\* toneCompression: `<-completed`
ToneBarrier == Completed("tone")

\* normalize: `case <-completed: goto NEXT` of the select loop
PeakBarrier == Completed("peak")

\* mutant: the wait is missing
CollectBarrier_Missing == TRUE

\* normalize: `<-completed` before perc.sort()
CollectBarrier == Completed("collect")

\* normalize: the last `<-completed`
FinalBarrier == Completed("final")

NoTasks == [s \in Stages |-> [i \in TileIds |-> IdleTask]]

NoPartial == [s \in ReduceStages |-> [i \in TileIds |-> NegInf]]

NoReceived == [s \in ReduceStages |-> {}]

NoHist ==
  [staleRead |-> FALSE, crossRead |-> FALSE,
   toneWrites |-> [p \in Pixels |-> 0],
   percWriters |-> [k \in 0 .. 3 * NPixels - 1 |-> {}],
   mWrites |-> [p \in Pixels |-> 0], mOutside |-> FALSE]

(* ------------------------------- Init ---------------------------------- *)
InitWith(A) ==
  /\ args \in A
  /\ pc = "new"
  /\ fresh = TRUE
  /\ img \in Images
  /\ tiles \in Tilings
  /\ Contrast = 0 /\ MinClipping = 0 /\ MaxClipping = 0
  /\ t_maxLum = 0
  /\ normalized = <<>> /\ baseLayer = <<>>
  /\ maxLumSeen = {0}
  /\ white = <<>>
  /\ whiteLive = FALSE
  /\ Sw = NegInf
  /\ norMaxLum = NegInf
  /\ perc = <<>>
  /\ minRGB = 0 /\ maxRGB = 0
  /\ m = <<>>
  /\ task = NoTasks
  /\ partial = NoPartial
  /\ received = NoReceived
  /\ hist = NoHist
  /\ prev = <<>>

Init == InitWith(PerformArgs)

InitNew == InitWith(NewArgs)

\* NewICam06: the three clamps; t.maxLum keeps float64's zero value
Construct ==
  /\ pc = "new"
  /\ LET t == NewICam06(args[1], args[2], args[3]) IN
       /\ Contrast' = t.Contrast
       /\ MinClipping' = t.MinClipping
       /\ MaxClipping' = t.MaxClipping
  /\ pc' = "ready"
  /\ UNCHANGED <<normalized, baseLayer, args, fresh, img, tiles, t_maxLum, maxLumSeen, white,
                 whiteLive, Sw, norMaxLum, perc, minRGB, maxRGB, m, task,
                 partial, received, hist, prev>>

(* --------------------------- luminance() ------------------------------- *)
\* Perform() entered: luminance() makes maxCh and starts the tiles.  The
\* rasters and locals of a call before are dropped here; the code reassigns
\* each of them before its first read in the new call.
PerformEnter ==
  /\ fresh' = (pc = "ready")
  /\ pc' = "lumSelect"
  /\ task' = [NoTasks EXCEPT !["lum"] = [i \in TileIds |-> StartTask(tiles[i])]]
  /\ partial' = NoPartial
  /\ received' = NoReceived
  /\ hist' = NoHist
  /\ maxLumSeen' = {t_maxLum}
  /\ normalized' = <<>> /\ baseLayer' = <<>>
  /\ white' = <<>> /\ whiteLive' = FALSE
  /\ Sw' = NegInf /\ norMaxLum' = NegInf
  /\ perc' = <<>> /\ minRGB' = 0 /\ maxRGB' = 0
  /\ m' = <<>>
  /\ UNCHANGED <<args, img, tiles, Contrast, MinClipping, MaxClipping,
                 t_maxLum>>

\* what a Perform() call has computed when it returns
Result ==
  [maxLum |-> t_maxLum, norMaxLum |-> norMaxLum, perc |-> perc,
   minRGB |-> minRGB, maxRGB |-> maxRGB, m |-> m]

\* Perform() called on a constructed instance, for the first time or again
PerformStart ==
  /\ pc \in {"ready", "done"}
  /\ PerformEnter
  /\ prev' = prev

\* Perform() called again, the result of the call before kept for comparison
PerformAgain ==
  /\ pc = "done"
  /\ prev = <<>>
  /\ PerformEnter
  /\ prev' = Result

\* the read of t.maxLum in a tile goroutine races with the write in the
\* select loop: it returns the current value or one written earlier
RacyMaxLum == maxLumSeen

\* one pixel of a luminance tile: max = math.Max(t.maxLum, lum)
LumPixel(i) ==
  /\ task["lum"][i].pc = "loop"
  /\ LET tk == task["lum"][i] IN
     \E v \in RacyMaxLum :
       LET nx == LoopNext(tiles[i], [tk EXCEPT !.max = Max(v, img[<<tk.x, tk.y>>])], "send") IN
         /\ task' = [task EXCEPT !["lum"][i] = nx]
         /\ partial' = IF nx.pc = "send"
                         THEN [partial EXCEPT !["lum"][i] = nx.max] ELSE partial
  /\ UNCHANGED <<normalized, baseLayer, args, pc, fresh, img, tiles, Contrast, MinClipping,
                 MaxClipping, t_maxLum, maxLumSeen, white, whiteLive, Sw,
                 norMaxLum, perc, minRGB, maxRGB, m, received, hist, prev>>

\* case max := <-maxCh: t.maxLum = math.Max(t.maxLum, max)
LumRecv(i) ==
  /\ pc = "lumSelect"
  /\ task["lum"][i].pc = "send"
  /\ t_maxLum' = Max(t_maxLum, task["lum"][i].max)
  /\ maxLumSeen' = maxLumSeen \cup {t_maxLum'}
  /\ received' = [received EXCEPT !["lum"] = @ \cup {i}]
  /\ task' = [task EXCEPT !["lum"][i] = DoneTask]
  /\ UNCHANGED <<normalized, baseLayer, args, pc, fresh, img, tiles, Contrast, MinClipping,
                 MaxClipping, white, whiteLive, Sw, norMaxLum, perc, minRGB,
                 maxRGB, m, partial, hist, prev>>

(* ---------------------- Perform(): the filter chain -------------------- *)
\* float division, floored; no divisor is 0 on the images of the model
\* (DivisorsNonZero), the 0 is there to keep the operator total
FDiv(a, b) == IF b = 0 THEN 0 ELSE a \div b

\* the closure of filter.NewApply1: Clamp(1e-8, maxLum, (y / t.maxLum) * maxLum);
\* 1e-8 is the smallest positive value, 1 here; y / 0 is +Inf and clamps to maxLum
Apply1(p) ==
  IF t_maxLum = 0 THEN maxLum
  ELSE Clamp(1, maxLum, (img[p] * maxLum) \div t_maxLum)

\* the mean Y of a raster
MeanOf(raster) == SumOver(raster, Pixels) \div NPixels

\* Pow10(bilateral(Log10(normalized))), a narrow blur
Bilateral(raster) ==
  LET mean == MeanOf(raster) IN [p \in Pixels |-> (3 * raster[p] + mean) \div 4]

\* filter.FastGaussian(t.normalized, maxDim / 2), a near-global blur
FastGaussian(raster) ==
  LET mean == MeanOf(raster) IN [p \in Pixels |-> (raster[p] + 3 * mean) \div 4]

\* detailLayer: clampToZero(y1 / y2) of normalized over baseLayer, in percent
detailLayer(p) == FDiv(normalized[p] * 100, baseLayer[p])

(* ------------------------- toneCompression() --------------------------- *)
\* Sw: the loop over 0..height, 0..width before the tiles start
GlobalSw(raster) == MaxOfSet({NegInf} \cup {raster[p].Y : p \in Pixels})

\* mutant: the white point is taken from the pixel to the right
WhiteAddr_Neighbour(x, y) == <<(x + 1) % W, y>>

\* the pixel of t.white that chromaticAdaptation(x, y) reads
WhiteAddr(x, y) == <<x, y>>

\* chromaticAdaptation(x, y): l1 * (cat02D65 * D / l2 + (1 - D)), with D = 1
chromaticAdaptation(x, y) ==
  FDiv(baseLayer[<<x, y>>] * 100, white[WhiteAddr(x, y)].Y)

\* cone response 400 * pow / (27.13 + pow) + 0.1 plus the rod response,
\* which scales the pixel by the global Sw
ToneCurve(ca, yw) ==
  LET pow == FDiv(ca * 100, yw)
      st  == FDiv(ca * 100, Sw)
  IN  ((400 * pow) \div (27 + pow) + 1) + ((3 * 400 * st) \div (27 + st))

\* case <-completed: return (luminance); Perform up to toneCompression's
\* ParallelR: the white-point raster, Sw, the tone tiles
LumCompleted ==
  /\ pc = "lumSelect"
  /\ LumBarrier
  /\ normalized' = [p \in Pixels |-> Apply1(p)]
  /\ baseLayer' = Bilateral(normalized')
  /\ white' = LET g == FastGaussian(normalized')
              IN  [p \in Pixels |-> [tone |-> FALSE, Y |-> g[p]]]
  /\ whiteLive' = TRUE
  /\ Sw' = GlobalSw(white')
  /\ task' = Spawn("tone")
  /\ pc' = "toneWait"
  /\ UNCHANGED <<args, fresh, img, tiles, Contrast, MinClipping, MaxClipping,
                 t_maxLum, maxLumSeen, norMaxLum, perc, minRGB, maxRGB, m,
                 partial, received, hist, prev>>

\* one pixel of a tone tile, in three steps: the read of Yw, the reads of
\* chromaticAdaptation, the write toneCompressed.Set(x, y, ...)
TonePixel(i) ==
  /\ task["tone"][i].pc = "loop"
  /\ LET tk == task["tone"][i]
         p  == <<tk.x, tk.y>>
         q  == WhiteAddr(tk.x, tk.y)
     IN
       \/ /\ tk.ph = 0
          /\ task' = [task EXCEPT !["tone"][i] = [tk EXCEPT !.yw = white[p].Y, !.ph = 1]]
          /\ hist' = [hist EXCEPT !.staleRead = @ \/ white[p].tone]
          /\ white' = white
       \/ /\ tk.ph = 1
          /\ task' = [task EXCEPT !["tone"][i] =
                        [tk EXCEPT !.ca = chromaticAdaptation(tk.x, tk.y), !.ph = 2]]
          /\ hist' = [hist EXCEPT !.staleRead = @ \/ white[q].tone,
                                  !.crossRead = @ \/ (q # p)]
          /\ white' = white
       \/ /\ tk.ph = 2
          /\ white' = [white EXCEPT ![p] = [tone |-> TRUE, Y |-> ToneCurve(tk.ca, tk.yw)]]
          /\ hist' = [hist EXCEPT !.toneWrites[p] = @ + 1]
          /\ task' = [task EXCEPT !["tone"][i] = LoopNext(tiles[i], tk, "done")]
  /\ UNCHANGED <<normalized, baseLayer, args, pc, fresh, img, tiles, Contrast, MinClipping,
                 MaxClipping, t_maxLum, maxLumSeen, whiteLive, Sw, norMaxLum,
                 perc, minRGB, maxRGB, m, partial, received, prev>>

(* ----------------------------- normalize() ----------------------------- *)
\* Y of colorfullnessXsurround(x, y): detailCombined = toneCompressed * detail
colorfullnessXsurround(p) == (white[p].Y * detailLayer(p)) \div 100

\* <-completed (toneCompression); t.white = nil; Perform up to normalize's
\* first ParallelR: the output raster, norMaxLum, the peak tiles
ToneCompleted ==
  /\ pc = "toneWait"
  /\ ToneBarrier
  /\ whiteLive' = FALSE
  /\ m' = [p \in Pixels |-> [R |-> 0, G |-> 0, B |-> 0, A |-> 0]]
  /\ norMaxLum' = NegInf
  /\ task' = Spawn("peak")
  /\ pc' = "peakSelect"
  /\ UNCHANGED <<normalized, baseLayer, args, fresh, img, tiles, Contrast, MinClipping, MaxClipping,
                 t_maxLum, maxLumSeen, white, Sw, perc, minRGB, maxRGB,
                 partial, received, hist, prev>>

\* one pixel of a peak tile: max = math.Max(t.maxLum, lum)
PeakPixel(i) ==
  /\ task["peak"][i].pc = "loop"
  /\ LET tk == task["peak"][i]
         nx == LoopNext(tiles[i],
                 [tk EXCEPT !.max = Max(t_maxLum, colorfullnessXsurround(<<tk.x, tk.y>>))],
                 "send")
     IN /\ task' = [task EXCEPT !["peak"][i] = nx]
        /\ partial' = IF nx.pc = "send"
                        THEN [partial EXCEPT !["peak"][i] = nx.max] ELSE partial
  /\ UNCHANGED <<normalized, baseLayer, args, pc, fresh, img, tiles, Contrast, MinClipping,
                 MaxClipping, t_maxLum, maxLumSeen, white, whiteLive, Sw,
                 norMaxLum, perc, minRGB, maxRGB, m, received, hist, prev>>

\* case max := <-maxCh: norMaxLum = math.Max(norMaxLum, max)
PeakRecv(i) ==
  /\ pc = "peakSelect"
  /\ task["peak"][i].pc = "send"
  /\ norMaxLum' = Max(norMaxLum, task["peak"][i].max)
  /\ received' = [received EXCEPT !["peak"] = @ \cup {i}]
  /\ task' = [task EXCEPT !["peak"][i] = DoneTask]
  /\ UNCHANGED <<normalized, baseLayer, args, pc, fresh, img, tiles, Contrast, MinClipping,
                 MaxClipping, t_maxLum, maxLumSeen, white, whiteLive, Sw,
                 perc, minRGB, maxRGB, m, partial, hist, prev>>

\* size := t.HDRImage.Size()
size == NPixels

\* case <-completed: goto NEXT; perc := make(percentiles, size*3); the
\* collection tiles
PeakCompleted ==
  /\ pc = "peakSelect"
  /\ PeakBarrier
  /\ perc' = [k \in 0 .. size * 3 - 1 |-> 0]
  /\ task' = Spawn("collect")
  /\ pc' = "collectWait"
  /\ UNCHANGED <<normalized, baseLayer, args, fresh, img, tiles, Contrast, MinClipping, MaxClipping,
                 t_maxLum, maxLumSeen, white, whiteLive, Sw, norMaxLum,
                 minRGB, maxRGB, m, partial, received, hist, prev>>

\* colorful.XyzToLinearRgb, the matrix in hundredths
XyzToLinearRgb(X, Y, Z) ==
  <<(324 * X - 154 * Y - 50 * Z) \div 100,
    (-97 * X + 188 * Y + 4 * Z) \div 100,
    (6 * X - 20 * Y + 106 * Z) \div 100>>

\* normLum(x, y): the appearance-space colour over norMaxLum, as linear RGB
normLum(p) ==
  LET v == FDiv(colorfullnessXsurround(p) * RgbOne, norMaxLum)
  IN  XyzToLinearRgb(v, v, v)

\* i := x * y
PercIndex(x, y) == x * y

\* one pixel of a collection tile, one store per step:
\* perc[i] = r, perc[size+i] = g, perc[size*2+i] = b
CollectPixel(i) ==
  /\ task["collect"][i].pc = "loop"
  /\ LET tk   == task["collect"][i]
         p    == <<tk.x, tk.y>>
         slot == size * tk.ph + PercIndex(tk.x, tk.y)
     IN /\ perc' = [perc EXCEPT ![slot] = normLum(p)[tk.ph + 1]]
        /\ hist' = [hist EXCEPT !.percWriters[slot] = @ \cup {p}]
        /\ task' = [task EXCEPT !["collect"][i] =
                      IF tk.ph < 2 THEN [tk EXCEPT !.ph = tk.ph + 1]
                      ELSE LoopNext(tiles[i], tk, "done")]
  /\ UNCHANGED <<normalized, baseLayer, args, pc, fresh, img, tiles, Contrast, MinClipping,
                 MaxClipping, t_maxLum, maxLumSeen, white, whiteLive, Sw,
                 norMaxLum, minRGB, maxRGB, m, partial, received, prev>>

(* ----------------------------- percentiles ----------------------------- *)
\* p.sort(): ascending
Sorted(p) ==
  [k \in DOMAIN p |->
     CHOOSE v \in {p[j] : j \in DOMAIN p} :
       /\ Cardinality({j \in DOMAIN p : p[j] < v}) <= k
       /\ k < Cardinality({j \in DOMAIN p : p[j] <= v})]

\* mutant: the index scaled to the last sample
percentileIndex_Last(p, clipping) ==
  (clipping * (Cardinality(DOMAIN p) - 1)) \div ClipMax

\* p.percentile(clipping): i := int(clipping * n)
percentileIndex(p, clipping) == (clipping * Cardinality(DOMAIN p)) \div ClipMax

\* p[i] panics when i is outside the table
InRange(p, k) == k \in DOMAIN p

\* <-completed; perc.sort(); minRGB, maxRGB; the final tiles
CollectCompleted ==
  /\ pc = "collectWait"
  /\ CollectBarrier
  /\ perc' = Sorted(perc)
  /\ LET lo == percentileIndex(perc', MinClipping)
         hi == percentileIndex(perc', MaxClipping)
     IN IF InRange(perc', lo) /\ InRange(perc', hi)
        THEN /\ minRGB' = Min(perc'[lo], 0)
             /\ maxRGB' = perc'[hi]
             /\ task' = Spawn("final")
             /\ pc' = "finalWait"
        ELSE /\ pc' = "panic"
             /\ UNCHANGED <<minRGB, maxRGB, task>>
  /\ UNCHANGED <<normalized, baseLayer, args, fresh, img, tiles, Contrast, MinClipping, MaxClipping,
                 t_maxLum, maxLumSeen, white, whiteLive, Sw, norMaxLum, m,
                 partial, received, hist, prev>>

(* --------------------------- the final pass ---------------------------- *)
\* util.Clamp(0, 1, (v-minRGB)/(maxRGB-minRGB)); 0/0 is NaN, which Clamp
\* returns; a positive value over 0 is +Inf and clamps to 1
Clip(v) ==
  IF maxRGB = minRGB
    THEN IF v = minRGB THEN NaN ELSE IF v > minRGB THEN RgbOne ELSE 0
    ELSE Clamp(0, RgbOne, FDiv((v - minRGB) * RgbOne, maxRGB - minRGB))

\* normalizeC: the linear segment up to 0.0031308, above it the power law
\* 1.055 * c^(1/2.4) - 0.055 as its chord from (0.0031308, 0.04045) to (1, 1);
\* uint16 of NaN is implementation-dependent
normalizeC(c) ==
  IF c = NaN THEN ImplDep
  ELSE IF c <= 3 THEN (RangeMax * c * 1292) \div (100 * RgbOne)
  ELSE (RangeMax * (40 + ((c - 3) * 960) \div 997)) \div RgbOne

\* mutant: the A field left out of the literal
FinalColor_NoAlpha(rgb) ==
  [R |-> normalizeC(Clip(rgb[1])), G |-> normalizeC(Clip(rgb[2])),
   B |-> normalizeC(Clip(rgb[3])), A |-> 0]

\* color.RGBA64{R: ..., G: ..., B: ..., A: RangeMax}
FinalColor(rgb) ==
  [R |-> normalizeC(Clip(rgb[1])), G |-> normalizeC(Clip(rgb[2])),
   B |-> normalizeC(Clip(rgb[3])), A |-> RangeMax]

\* one pixel of a final tile: m.SetRGBA64(x, y, ...), which ignores a point
\* outside the raster
FinalPixel(i) ==
  /\ task["final"][i].pc = "loop"
  /\ LET tk == task["final"][i]
         p  == <<tk.x, tk.y>>
     IN /\ IF p \in DOMAIN m
             THEN /\ m' = [m EXCEPT ![p] = FinalColor(normLum(p))]
                  /\ hist' = [hist EXCEPT !.mWrites[p] = @ + 1]
             ELSE /\ m' = m
                  /\ hist' = [hist EXCEPT !.mOutside = TRUE]
        /\ task' = [task EXCEPT !["final"][i] = LoopNext(tiles[i], tk, "done")]
  /\ UNCHANGED <<normalized, baseLayer, args, pc, fresh, img, tiles, Contrast, MinClipping,
                 MaxClipping, t_maxLum, maxLumSeen, white, whiteLive, Sw,
                 norMaxLum, perc, minRGB, maxRGB, partial, received, prev>>

\* <-completed (normalize); return m
FinalCompleted ==
  /\ pc = "finalWait"
  /\ FinalBarrier
  /\ pc' = "done"
  /\ prev' = prev
  /\ UNCHANGED <<normalized, baseLayer, args, fresh, img, tiles, Contrast, MinClipping, MaxClipping,
                 t_maxLum, maxLumSeen, white, whiteLive, Sw, norMaxLum, perc,
                 minRGB, maxRGB, m, task, partial, received, hist>>

Next ==
  \/ Construct
  \/ PerformStart
  \/ \E i \in TileIds : LumPixel(i)
  \/ \E i \in TileIds : LumRecv(i)
  \/ LumCompleted
  \/ \E i \in TileIds : TonePixel(i)
  \/ ToneCompleted
  \/ \E i \in TileIds : PeakPixel(i)
  \/ \E i \in TileIds : PeakRecv(i)
  \/ PeakCompleted
  \/ \E i \in TileIds : CollectPixel(i)
  \/ CollectCompleted
  \/ \E i \in TileIds : FinalPixel(i)
  \/ FinalCompleted

Spec == Init /\ [][Next]_vars

\* Perform() called twice, the first result kept
NextRepeat == Next \/ PerformAgain

SpecRepeat == Init /\ [][NextRepeat]_vars

\* the constructor alone, over a wider set of argument triples
NextNew == Construct

SpecNew == InitNew /\ [][NextNew]_vars

(* ======================================================================= *)
(*                               Claims                                    *)
(* ======================================================================= *)

\* position of the caller, as the number of the stage whose tiles it waits for
PcStage ==
  CASE pc = "lumSelect" -> 1 [] pc = "toneWait" -> 2 [] pc = "peakSelect" -> 3
    [] pc = "collectWait" -> 4 [] pc = "panic" -> 5 [] pc = "finalWait" -> 5
    [] pc = "done" -> 6 [] OTHER -> 0

\* every divisor of the float formulas is non-zero where it is used
DivisorsNonZero ==
  /\ PcStage >= 2 =>
       /\ t_maxLum > 0 /\ Sw > 0
       /\ \A p \in Pixels : baseLayer[p] > 0 /\ white[p].Y > 0
  /\ PcStage >= 4 => norMaxLum > 0

\* C1: NewICam06 accepts every triple and stores contrast clamped into
\* [0.6, 0.85] and both clippings clamped into [0, 1]; a value inside its
\* range is stored unchanged.
C1_Clamping ==
  /\ pc = "new" => ENABLED Construct
  /\ pc # "new" =>
       /\ Contrast = Min(Max(args[1], 60), 85)
       /\ MinClipping = Min(Max(args[2], 0), 100)
       /\ MaxClipping = Min(Max(args[3], 0), 100)
       /\ (args[1] \in 60 .. 85 => Contrast = args[1])
       /\ (args[2] \in 0 .. 100 => MinClipping = args[2])
       /\ (args[3] \in 0 .. 100 => MaxClipping = args[3])

\* contrast = 2.0, minClipping = -1, maxClipping = 5 constructed
C1_Witness ==
  /\ pc = "ready"
  /\ args = <<200, -100, 500>>
  /\ Contrast = 85 /\ MinClipping = 0 /\ MaxClipping = 100

\* C2: a second Perform() on the same instance computes the same t.maxLum,
\* norMaxLum, sorted sample table, minRGB, maxRGB and raster as the first,
\* whatever the order in which the tile tasks ran.
C2_Deterministic == (pc = "done" /\ prev # <<>>) => Result = prev

\* C3: when Perform() returns, the raster has the source image's bounds and
\* every pixel in them was written by the final pass, with alpha RangeMax;
\* no pixel keeps its zero value and nothing was written outside.
C3_OutputShape ==
  pc = "done" =>
    /\ DOMAIN m = DOMAIN img
    /\ \A p \in DOMAIN img :
         /\ hist.mWrites[p] = 1
         /\ m[p].A = 65535
         /\ m[p] # [R |-> 0, G |-> 0, B |-> 0, A |-> 0]
    /\ ~hist.mOutside

\* Perform() has returned a raster written by two tiles
C3_Witness ==
  /\ pc = "done"
  /\ Len(tiles) = 2
  /\ \A p \in Pixels : hist.mWrites[p] = 1 /\ m[p].A = 65535

\* C4: after luminance() on a fresh ICam06, t.maxLum is max(20000, the
\* largest Y of the image), and every tile reported the maximum of its pixels.
C4_MaxLumIsCappedPeak ==
  (fresh /\ PcStage >= 2) =>
    /\ t_maxLum = Max(20000, MaxOfSet({img[p] : p \in Pixels}))
    /\ \A i \in TileIds :
         partial["lum"][i] = MaxOfSet({img[p] : p \in TilePixels(tiles[i])})

\* C5: when the collection pass is complete and the table not yet sorted,
\* every slot of the 3N-entry table was written, and by one pixel only.
C5_DistinctSlots ==
  (pc = "collectWait" /\ Completed("collect")) =>
    \A k \in DOMAIN perc : Cardinality(hist.percWriters[k]) = 1

\* C6: on a table of n >= 1 samples percentile(p) reads index floor(p*n),
\* inside the table for every p < 1 and equal to n for p = 1; so Perform()
\* with a clipping of 1 stops at the out-of-range access and returns nothing.
C6_PercentileBound ==
  /\ pc \in {"panic", "done"} =>
       LET n == Cardinality(DOMAIN perc) IN
         /\ n = 3 * NPixels
         /\ \A c \in 0 .. 99 :
              /\ percentileIndex(perc, c) = (c * n) \div 100
              /\ percentileIndex(perc, c) \in 0 .. n - 1
         /\ percentileIndex(perc, 100) = n
         /\ ~InRange(perc, n)
  /\ pc \in {"finalWait", "done"} => (MinClipping < 100 /\ MaxClipping < 100)
  /\ pc = "panic" => (MinClipping = 100 \/ MaxClipping = 100)
  /\ (pc = "collectWait" /\ (MinClipping = 100 \/ MaxClipping = 100)) =>
       ~ENABLED (CollectCompleted /\ pc' = "finalWait")

\* maxClipping = 5 was clamped to 1 and the percentile access went out of range
C6_Witness ==
  /\ pc = "panic"
  /\ args[3] = 500
  /\ MaxClipping = 100
  /\ percentileIndex(perc, MaxClipping) = 3 * NPixels

\* C7: in both reductions the select loop leaves on the completion signal
\* only when every tile's partial maximum has been received and folded into
\* the accumulator; none is lost or left unreceived.
C7_AllPartialsFolded ==
  /\ PcStage >= 2 =>
       /\ received["lum"] = TileIds
       /\ \A i \in TileIds :
            /\ task["lum"][i].pc = "done"
            /\ partial["lum"][i] # NegInf
            /\ t_maxLum >= partial["lum"][i]
  /\ PcStage >= 4 =>
       /\ received["peak"] = TileIds
       /\ \A i \in TileIds :
            /\ task["peak"][i].pc = "done"
            /\ partial["peak"][i] # NegInf
       /\ norMaxLum = MaxOfSet({partial["peak"][i] : i \in TileIds})

\* both loops have left after two tiles each, with different partial maxima
C7_Witness ==
  /\ pc = "collectWait"
  /\ Len(tiles) = 2
  /\ received["lum"] = {1, 2} /\ received["peak"] = {1, 2}
  /\ partial["lum"][1] # partial["lum"][2]

\* C8: norMaxLum is the largest appearance-space Y over all pixels of the
\* image, for every tiling, whatever t.maxLum is.
C8_NorMaxLumIsPeak ==
  PcStage >= 4 =>
    norMaxLum = MaxOfSet({colorfullnessXsurround(p) : p \in Pixels})

\* C9: toneCompression overwrites the white-point raster in place, yet Sw
\* is taken from the raster before any write, every read made for pixel
\* (x, y) addresses (x, y) and precedes the one write to (x, y), and no read
\* sees a tone-compressed value.
C9_NoStaleRead ==
  /\ ~hist.staleRead
  /\ ~hist.crossRead
  /\ \A p \in Pixels : hist.toneWrites[p] <= 1
  /\ pc = "toneWait" =>
       /\ Sw = MaxOfSet({FastGaussian(normalized)[p] : p \in Pixels})
       /\ \A i \in TileIds :
            LET tk == task["tone"][i] IN
              (tk.pc = "loop" /\ tk.ph >= 1) =>
                /\ tk.yw = FastGaussian(normalized)[<<tk.x, tk.y>>]
                /\ ~white[<<tk.x, tk.y>>].tone
                /\ hist.toneWrites[<<tk.x, tk.y>>] = 0
  /\ PcStage >= 3 => \A p \in Pixels : hist.toneWrites[p] = 1 /\ white[p].tone

\* one tile has overwritten a pixel while the other holds values it read
\* and has not written yet
C9_Witness ==
  /\ pc = "toneWait"
  /\ Len(tiles) = 2
  /\ \E p \in Pixels : white[p].tone
  /\ \E i \in TileIds : task["tone"][i].pc = "loop" /\ task["tone"][i].ph = 2

\* C10: the stages run in the order luminance, tone compression, peak
\* reduction, collection, final pass; no tile of a stage starts, and the
\* caller uses no result of a stage, before every tile of the stages before
\* it has finished; Perform() returns after the last stage's tiles.
C10_StageBarriers ==
  /\ \A s \in Stages :
       /\ StageNo(s) < PcStage => \A i \in TileIds : task[s][i].pc = "done"
       /\ (StageNo(s) > PcStage \/ (pc = "panic" /\ s = "final")) =>
            \A i \in TileIds : task[s][i].pc = "idle"
  /\ \A s1, s2 \in Stages :
       (StageNo(s1) < StageNo(s2) /\ \E i \in TileIds : task[s2][i].pc # "idle") =>
         \A i \in TileIds : task[s1][i].pc = "done"
  /\ PcStage >= 2 => t_maxLum = MaxOfSet({partial["lum"][i] : i \in TileIds})
  /\ pc = "done" => Completed("final")

\* the final pass is running on two tiles after the four stages before it
C10_Witness ==
  /\ pc = "finalWait"
  /\ Len(tiles) = 2
  /\ \E i \in TileIds : task["final"][i].pc = "loop"
  /\ \E i \in TileIds : task["final"][i].pc = "done"

====
